---- MODULE Spec2Model ----
(***************************************************************************)
(* The analytics service (src/analytics/app.py): a document collection of  *)
(* activity records, the reporting handlers that aggregate it, and the     *)
(* handlers that insert a record, edit its comment and list a date range   *)
(* (back-filling created_at while they read).                              *)
(*                                                                         *)
(* Time.  An instant is a number of hours; day d is the hours             *)
(* d*24 .. d*24+23 and day 0 is a Thursday.  A datetime the driver hands   *)
(* back, or one the handlers build without tzinfo, is "naive": the same    *)
(* number, read as UTC by the store and as host-local time by astimezone.  *)
(* A "%Y-%m-%d" string is modelled by its day number.                      *)
(***************************************************************************)
EXTENDS Integers, Sequences, FiniteSets, TLC

VARIABLES
    store,            \* db.exercises: the documents, in insertion order
    now,              \* the clock, as a UTC instant
    hostTz,           \* the host's local-time offset from UTC, in hours
    nextCtr,          \* the counter part of the next ObjectId
    pc,               \* per range request: where the handler stands
    req,              \* per range request: its query parameters
    activities_list,  \* per range request: the documents find() returned
    idx,              \* per range request: the position of the for loop in them
    out,              \* per range request: the rows built so far
    rangeResp,        \* per range request: the response
    resp              \* the response of the last single-step handler

readerVars == <<pc, req, activities_list, idx, out, rangeResp>>
vars == <<store, now, hostTz, nextCtr, readerVars, resp>>

----------------------------------------------------------------------------
(* Time *)

HoursPerDay == 24

\* None: what dict.get() gives for a field the document does not have
Missing == 0 - 1

DayOf(t) == t \div HoursPerDay
HourOf(t) == t % HoursPerDay

\* dt.replace(hour=0, minute=0, second=0, microsecond=0)
Midnight(t) == DayOf(t) * HoursPerDay

\* timedelta(days=n)
Days(n) == n * HoursPerDay

\* Europe/London: GMT, and one hour ahead from the instant summer time begins
BstStart == Days(2) + 1
UkOffset(t) == IF t >= BstStart THEN 1 ELSE 0

\* aware.astimezone(uk): the London wall clock of a UTC instant
ToLondon(t) == t + UkOffset(t)

\* naive.astimezone(uk): a naive datetime is taken as host-local time first
NaiveToLondon(t) == ToLondon(t - hostTz)

\* datetime.now(): the host's wall clock, naive
LocalNow == now + hostTz

\* strftime("%Y-%m-%d") / $dateToString "%Y-%m-%d"
DateStr(t) == DayOf(t)

\* $dayOfWeek: 1 = Sunday .. 7 = Saturday
MongoDayOfWeek(t) == ((DayOf(t) + 4) % 7) + 1

\* the $switch written for a weekday index with 1 = Monday .. 7 = Sunday
SwitchNameMondayFirst(dow) ==
    CASE dow = 1 -> "Mon"
      [] dow = 2 -> "Tue"
      [] dow = 3 -> "Wed"
      [] dow = 4 -> "Thu"
      [] dow = 5 -> "Fri"
      [] dow = 6 -> "Sat"
      [] dow = 7 -> "Sun"
      [] OTHER -> "Unknown"

\* the $switch of the $project stage
SwitchName(dow) ==
    CASE dow = 2 -> "Mon"
      [] dow = 3 -> "Tue"
      [] dow = 4 -> "Wed"
      [] dow = 5 -> "Thu"
      [] dow = 6 -> "Fri"
      [] dow = 7 -> "Sat"
      [] dow = 1 -> "Sun"
      [] OTHER -> "Unknown"

\* strftime("%a"): datetime.weekday() has 0 = Monday
StrftimeA(t) ==
    <<"Mon", "Tue", "Wed", "Thu", "Fri", "Sat", "Sun">>[((DayOf(t) + 3) % 7) + 1]

----------------------------------------------------------------------------
(* Documents *)

Users == {"ann", "bob"}
ExerciseTypes == {"Running", "Yoga"}

\* a string that may name a document: hex strings are what str(ObjectId) gives
\* (ts: the creation instant the id embeds, ctr: its counter), the others are not
\* valid ObjectId text
IdStr(hex, ts, ctr) == [hex |-> hex, ts |-> ts, ctr |-> ctr]
NoIdStr == IdStr(FALSE, 0, 0)

\* _id: an ObjectId, or a string
ObjectId(s) == [kind |-> "oid", val |-> s]
StrId(s) == [kind |-> "str", val |-> s]

\* ObjectId.generation_time (not defined on a string _id)
generation_time(id) == id.val.ts

Doc(id, idField, username, exerciseType, description, duration, date, created_at) ==
    [_id |-> id, id |-> idField, username |-> username, exerciseType |-> exerciseType,
     description |-> description, duration |-> duration, date |-> date,
     created_at |-> created_at]

\* sum of duration over a sequence of documents ($sum: "$duration")
RECURSIVE SumDuration(_)
SumDuration(docs) ==
    IF docs = <<>> THEN 0 ELSE Head(docs).duration + SumDuration(Tail(docs))

\* the sequences that list the finite set S once each (an order the store is
\* free to choose)
Orders(S) ==
    {f \in [1..Cardinality(S) -> S] : \A i, j \in 1..Cardinality(S) : f[i] = f[j] => i = j}

\* responses of the single-step handlers
Response(op, status, arg, body) == [op |-> op, status |-> status, arg |-> arg, body |-> body]
NoResp == Response("none", 0, "", <<>>)

\* the requests to /api/activities/range that can be in progress together
Readers == {"r1", "r2"}

----------------------------------------------------------------------------
(* daily_trend_stats *)

\* lines 161-165
TrendEnd == LocalNow
TrendStart == Midnight(TrendEnd - Days(6))

\* $match without the username condition
TrendMatchAnyUser(coll, username, start_date, end_date) ==
    LET Hit(r) == r.date # Missing /\ r.date >= start_date /\ r.date <= end_date
    IN SelectSeq(coll, Hit)

\* $match, lines 172-178
TrendMatch(coll, username, start_date, end_date) ==
    LET Hit(r) == /\ r.username = username
                  /\ r.date # Missing
                  /\ r.date >= start_date
                  /\ r.date <= end_date
    IN SelectSeq(coll, Hit)

\* $group, lines 181-187
TrendGroup(docs) ==
    LET Key(r) == [dayOfWeek |-> MongoDayOfWeek(r.date), date |-> DateStr(r.date)]
        keys == {Key(docs[i]) : i \in DOMAIN docs}
        Of(k) == LET In(r) == Key(r) = k IN SelectSeq(docs, In)
    IN {[_id |-> k, totalDuration |-> SumDuration(Of(k))] : k \in keys}

\* $sort {"_id.date": 1}, line 190
RECURSIVE TrendSort(_)
TrendSort(rows) ==
    IF rows = {} THEN <<>>
    ELSE LET m == CHOOSE x \in rows : \A y \in rows : x._id.date <= y._id.date
         IN <<m>> \o TrendSort(rows \ {m})

\* $project, lines 193-212
TrendProject(rows) ==
    [i \in DOMAIN rows |->
        [name |-> SwitchName(rows[i]._id.dayOfWeek),
         Duration |-> rows[i].totalDuration,
         date |-> rows[i]._id.date]]

\* db.exercises.aggregate(pipeline), line 217
TrendAggregate(coll, username, start_date, end_date) ==
    TrendProject(TrendSort(TrendGroup(TrendMatch(coll, username, start_date, end_date))))

\* date_data = {item['date']: item for item in stats}, line 219
DateData(stats) ==
    [d \in {stats[i].date : i \in DOMAIN stats} |->
        stats[CHOOSE i \in DOMAIN stats :
                /\ stats[i].date = d
                /\ \A j \in DOMAIN stats : stats[j].date = d => j <= i]]

\* the while loop with "<" for "<=": the reference day is lost at midnight
RECURSIVE FullRangeExclusive(_, _, _)
FullRangeExclusive(current, end_date, date_data) ==
    IF current < end_date
    THEN LET date_str == DateStr(current)
             item == IF date_str \in DOMAIN date_data
                     THEN date_data[date_str]
                     ELSE [name |-> StrftimeA(current), Duration |-> 0, date |-> date_str]
         IN <<item>> \o FullRangeExclusive(current + Days(1), end_date, date_data)
    ELSE <<>>

\* the while loop, lines 221-235
RECURSIVE FullRange(_, _, _)
FullRange(current, end_date, date_data) ==
    IF current <= end_date
    THEN LET date_str == DateStr(current)
             day_name == StrftimeA(current)
             item == IF date_str \in DOMAIN date_data
                     THEN date_data[date_str]
                     ELSE [name |-> day_name, Duration |-> 0, date |-> date_str]
         IN <<item>> \o FullRange(current + Days(1), end_date, date_data)
    ELSE <<>>

\* the handler; aggregateFails: the store raises, and the handler answers 500
daily_trend_stats(username, aggregateFails) ==
    /\ resp' = IF aggregateFails
               THEN Response("daily_trend", 500, username, <<>>)
               ELSE Response("daily_trend", 200, username,
                        FullRange(TrendStart, TrendEnd,
                            DateData(TrendAggregate(store, username, TrendStart, TrendEnd))))
    /\ UNCHANGED <<store, now, hostTz, nextCtr, readerVars>>

----------------------------------------------------------------------------
(* stats and user_stats *)

\* first $group with the username left out of the sum's condition: a type's
\* total then mixes the users
StatsGroupMixed(docs) ==
    LET Key(r) == [username |-> r.username, exerciseType |-> r.exerciseType]
        keys == {Key(docs[i]) : i \in DOMAIN docs}
        Of(k) == LET In(r) == r.exerciseType = k.exerciseType IN SelectSeq(docs, In)
    IN {[_id |-> k, totalDuration |-> SumDuration(Of(k))] : k \in keys}

\* first $group: by (username, exerciseType), summing duration; lines 75-81, 120-126
StatsGroup(docs) ==
    LET Key(r) == [username |-> r.username, exerciseType |-> r.exerciseType]
        keys == {Key(docs[i]) : i \in DOMAIN docs}
        Of(k) == LET In(r) == Key(r) = k IN SelectSeq(docs, In)
    IN {[_id |-> k, totalDuration |-> SumDuration(Of(k))] : k \in keys}

\* second $group: by username, pushing the rows in the order they arrive;
\* lines 84-92, 129-137
StatsRegroup(rows) ==
    LET names == {rows[i]._id.username : i \in DOMAIN rows}
        Of(u) == LET In(row) == row._id.username = u IN SelectSeq(rows, In)
        Push(row) == [exerciseType |-> row._id.exerciseType,
                      totalDuration |-> row.totalDuration]
    IN {[_id |-> u, exercises |-> [i \in DOMAIN Of(u) |-> Push(Of(u)[i])]] : u \in names}

\* $project, lines 95-99, 140-144
StatsProject(rows) ==
    [i \in DOMAIN rows |-> [username |-> rows[i]._id, exercises |-> rows[i].exercises]]

\* $match of user_stats, line 117
UserMatch(coll, username) ==
    LET Hit(r) == r.username = username IN SelectSeq(coll, Hit)

\* the results aggregate() may hand back for the documents docs: the store is
\* free in the order of each $group's output
StatsResults(docs) ==
    UNION {{StatsProject(second) : second \in Orders(StatsRegroup(first))} :
              first \in Orders(StatsGroup(docs))}

\* the handlers; aggregateFails: the store raises, and the handler answers 500
stats(aggregateFails) ==
    /\ \/ aggregateFails /\ resp' = Response("stats", 500, "", <<>>)
       \/ ~aggregateFails /\ \E result \in StatsResults(store) :
                                 resp' = Response("stats", 200, "", result)
    /\ UNCHANGED <<store, now, hostTz, nextCtr, readerVars>>

user_stats(username, aggregateFails) ==
    /\ \/ aggregateFails /\ resp' = Response("user_stats", 500, username, <<>>)
       \/ ~aggregateFails /\ \E result \in StatsResults(UserMatch(store, username)) :
                                 resp' = Response("user_stats", 200, username, result)
    /\ UNCHANGED <<store, now, hostTz, nextCtr, readerVars>>

----------------------------------------------------------------------------
(* Request values *)

\* a date as a request carries it:
\*   "ymd"  the 10 characters YYYY-MM-DD of day `day`
\*   "iso"  an ISO timestamp: wall-clock day and hour, with UTC offset `off`
\*   "bad"  a string that is neither
\*   "num"  a JSON value that is not a string
\*   "none" absent or empty
DateIn(kind, day, hour, off) == [kind |-> kind, day |-> day, hour |-> hour, off |-> off]
Ymd(day) == DateIn("ymd", day, 0, 0)
Iso(day, hour, off) == DateIn("iso", day, hour, off)
BadDate == DateIn("bad", 0, 0, 0)
NumDate == DateIn("num", 0, 0, 0)
NoDate == DateIn("none", 0, 0, 0)

\* datetime.strptime(s, "%Y-%m-%d"): defined on "ymd" strings only
StrptimeOk(s) == s.kind = "ymd"
Strptime(s) == Days(s.day)

\* a duration as a request carries it: absent, a number (in tenths of a
\* minute), or text that is no number
DurationIn(kind, tenths) == [kind |-> kind, tenths |-> tenths]

\* int(x): truncation toward zero
IntOf(tenths) == IF tenths >= 0 THEN tenths \div 10 ELSE 0 - ((0 - tenths) \div 10)

\* the query parameters of a range request that is not there
NoReq == [user |-> "", start |-> NoDate, end |-> NoDate]

\* the "comments" of a PATCH body (None when neither key is there)
CommentsIn(given, text) == [given |-> given, text |-> text]

----------------------------------------------------------------------------
(* weekly_journal_stats *)

\* $match: start <= date < end, lines 263-269 and 375-378
RangeMatch(coll, username, start_date, end_date) ==
    LET Hit(r) == /\ r.username = username
                  /\ r.date # Missing
                  /\ r.date >= start_date
                  /\ r.date < end_date
    IN SelectSeq(coll, Hit)

\* $group by exerciseType and $project, lines 272-285
JournalGroup(docs) ==
    LET types == {docs[i].exerciseType : i \in DOMAIN docs}
        Of(t) == LET In(r) == r.exerciseType = t IN SelectSeq(docs, In)
    IN {[exerciseType |-> t, totalDuration |-> SumDuration(Of(t))] : t \in types}

\* the upper bound without the added day: the end date itself is cut off
RangeEndExclusive(end_date_str) == Strptime(end_date_str)

\* the upper bound of an explicit range: the day after the end date, lines 256, 371
RangeEnd(end_date_str) == Strptime(end_date_str) + Days(1)

weekly_journal_stats(username, start_date_str, end_date_str, aggregateFails) ==
    LET arg == [user |-> username, start |-> start_date_str, end |-> end_date_str]
    IN /\ IF username = "" \/ start_date_str.kind = "none" \/ end_date_str.kind = "none"
          THEN resp' = Response("weekly", 400, arg, <<>>)
          ELSE IF ~StrptimeOk(start_date_str) \/ ~StrptimeOk(end_date_str)
          THEN resp' = Response("weekly", 400, arg, <<>>)
          ELSE IF aggregateFails
          THEN resp' = Response("weekly", 500, arg, <<>>)
          ELSE \E result \in Orders(JournalGroup(
                        RangeMatch(store, username, Strptime(start_date_str),
                                   RangeEnd(end_date_str)))) :
                  resp' = Response("weekly", 200, arg, result)
       /\ UNCHANGED <<store, now, hostTz, nextCtr, readerVars>>

----------------------------------------------------------------------------
(* get_activities_by_range: one step per round trip to the store *)

\* find(query).sort("date", -1): the matching documents, newest date first, in
\* any order among equal dates
RangeFind(coll, username, start_date, end_date) ==
    LET matched == RangeMatch(coll, username, start_date, end_date)
        n == Len(matched)
        sorted == {f \in [1..n -> 1..n] :
                      /\ \A i, j \in 1..n : f[i] = f[j] => i = j
                      /\ \A i, j \in 1..n : i < j => matched[f[i]].date >= matched[f[j]].date}
    IN {[i \in 1..n |-> matched[f[i]]] : f \in sorted}

\* lines 362-382: the parameters are checked and the query runs
RangeStart(p, username, start_date_str, end_date_str, findFails) ==
    LET arg == [user |-> username, start |-> start_date_str, end |-> end_date_str]
        Answer(status) ==
            /\ pc' = [pc EXCEPT ![p] = "done"]
            /\ rangeResp' = [rangeResp EXCEPT ![p] = Response("range", status, arg, <<>>)]
            /\ activities_list' = [activities_list EXCEPT ![p] = <<>>]
    IN /\ pc[p] = "idle"
       /\ req' = [req EXCEPT ![p] = arg]
       /\ idx' = [idx EXCEPT ![p] = 1]
       /\ out' = [out EXCEPT ![p] = <<>>]
       /\ IF username = "" \/ start_date_str.kind = "none" \/ end_date_str.kind = "none"
          THEN Answer(400)
          ELSE IF ~StrptimeOk(start_date_str) \/ ~StrptimeOk(end_date_str)
          THEN Answer(400)
          ELSE IF findFails
          THEN Answer(500)
          ELSE /\ \E found \in RangeFind(store, username, Strptime(start_date_str),
                                         RangeEnd(end_date_str)) :
                      activities_list' = [activities_list EXCEPT ![p] = found]
               /\ pc' = [pc EXCEPT ![p] = "loop"]
               /\ UNCHANGED rangeResp
       /\ UNCHANGED <<store, now, hostTz, nextCtr, resp>>

\* update_one({"_id": id}, {"$set": {"created_at": created}}), lines 399-402
SetCreatedAt(coll, id, created) ==
    [k \in DOMAIN coll |->
        IF coll[k]._id = id /\ \A j \in 1..(k - 1) : coll[j]._id # id
        THEN [coll[k] EXCEPT !.created_at = created]
        ELSE coll[k]]

\* the derived instant taken from the clock instead of the identifier
DerivedCreatedNow(a) == now

\* the instant the read derives for a document without created_at, line 397
DerivedCreated(a) == generation_time(a._id)

\* the row with createdAt read from the document alone, without the fallback
\* to the derived instant
RangeRowStoredOnly(a) ==
    LET date_str == IF a.date # Missing
                    THEN DateStr(NaiveToLondon(a.date))
                    ELSE DateStr(ToLondon(generation_time(a._id)))
        stored == a.created_at # Missing
        created == IF stored THEN a.created_at ELSE DerivedCreated(a)
        time_str == IF stored THEN HourOf(NaiveToLondon(created))
                    ELSE HourOf(ToLondon(created))
    IN [id |-> a._id.val, username |-> a.username, date |-> date_str, time |-> time_str,
        activityType |-> a.exerciseType, duration |-> a.duration,
        comments |-> a.description, createdAt |-> a.created_at]

\* the row of document a, lines 388-415; stored datetimes come back naive,
\* the derived ones carry tzinfo
RangeRow(a) ==
    LET date_str == IF a.date # Missing
                    THEN DateStr(NaiveToLondon(a.date))
                    ELSE DateStr(ToLondon(generation_time(a._id)))
        stored == a.created_at # Missing
        created == IF stored THEN a.created_at ELSE DerivedCreated(a)
        time_str == IF stored THEN HourOf(NaiveToLondon(created))
                    ELSE HourOf(ToLondon(created))
    IN [id |-> a._id.val, username |-> a.username, date |-> date_str, time |-> time_str,
        activityType |-> a.exerciseType, duration |-> a.duration,
        comments |-> a.description, createdAt |-> created]

\* one pass of the for loop, lines 386-415.  generation_time of a string _id
\* raises, and so does a failing update_one: the except clause answers 500.
RangeStep(p, updateFails) ==
    /\ pc[p] = "loop"
    /\ idx[p] <= Len(activities_list[p])
    /\ LET a == activities_list[p][idx[p]]
           derives == a.created_at = Missing
           raises == \/ (a.date = Missing \/ derives) /\ a._id.kind # "oid"
                     \/ derives /\ updateFails
       IN /\ updateFails => derives /\ a._id.kind = "oid"
          /\ IF raises
             THEN /\ pc' = [pc EXCEPT ![p] = "done"]
                  /\ rangeResp' = [rangeResp EXCEPT ![p] = Response("range", 500, req[p], <<>>)]
                  /\ UNCHANGED <<store, idx, out>>
             ELSE /\ store' = IF derives
                              THEN SetCreatedAt(store, a._id, DerivedCreated(a))
                              ELSE store
                  /\ out' = [out EXCEPT ![p] = Append(@, RangeRow(a))]
                  /\ idx' = [idx EXCEPT ![p] = @ + 1]
                  /\ UNCHANGED <<pc, rangeResp>>
    /\ UNCHANGED <<now, hostTz, nextCtr, req, activities_list, resp>>

\* return jsonify(out), line 417
RangeReturn(p) ==
    /\ pc[p] = "loop"
    /\ idx[p] > Len(activities_list[p])
    /\ pc' = [pc EXCEPT ![p] = "done"]
    /\ rangeResp' = [rangeResp EXCEPT ![p] = Response("range", 200, req[p], out[p])]
    /\ UNCHANGED <<store, now, hostTz, nextCtr, req, activities_list, idx, out, resp>>

\* the response is delivered and the request is over
RangeClose(p) ==
    /\ pc[p] = "done"
    /\ pc' = [pc EXCEPT ![p] = "idle"]
    /\ req' = [req EXCEPT ![p] = NoReq]
    /\ activities_list' = [activities_list EXCEPT ![p] = <<>>]
    /\ idx' = [idx EXCEPT ![p] = 1]
    /\ out' = [out EXCEPT ![p] = <<>>]
    /\ rangeResp' = [rangeResp EXCEPT ![p] = NoResp]
    /\ UNCHANGED <<store, now, hostTz, nextCtr, resp>>

----------------------------------------------------------------------------
(* update_activity_comment *)

\* the $or query, lines 433-441: ObjectId(activity_id) when the text parses
\* as one, the text itself as _id, the text as the field id
CommentQuery(r, activity_id) ==
    \/ activity_id.hex /\ r._id = ObjectId(activity_id)
    \/ r._id = StrId(activity_id)
    \/ r.id = activity_id

Matching(coll, activity_id) == {k \in DOMAIN coll : CommentQuery(coll[k], activity_id)}

\* the update as a replacement of the matched document: only _id and the new
\* description survive
SetDescriptionReplace(coll, activity_id, comments) ==
    [k \in DOMAIN coll |->
        IF k \in Matching(coll, activity_id)
           /\ \A j \in Matching(coll, activity_id) : k <= j
        THEN Doc(coll[k]._id, NoIdStr, "", "", comments, 0, Missing, Missing)
        ELSE coll[k]]

\* update_one(query, {"$set": {"description": comments}}), line 443: the first
\* matching document is updated
SetDescription(coll, activity_id, comments) ==
    [k \in DOMAIN coll |->
        IF k \in Matching(coll, activity_id)
           /\ \A j \in Matching(coll, activity_id) : k <= j
        THEN [coll[k] EXCEPT !.description = comments]
        ELSE coll[k]]

\* the handler without the matched_count test: an unknown id is answered ok
update_comment_unchecked(activity_id, comments, updateFails) ==
    LET arg == [id |-> activity_id, comments |-> comments]
    IN /\ IF ~comments.given
          THEN resp' = Response("comment", 400, arg, <<>>) /\ UNCHANGED store
          ELSE IF updateFails
          THEN resp' = Response("comment", 500, arg, <<>>) /\ UNCHANGED store
          ELSE /\ store' = SetDescription(store, activity_id, comments.text)
               /\ resp' = Response("comment", 200, arg, <<>>)
       /\ UNCHANGED <<now, hostTz, nextCtr, readerVars>>

\* lines 426-455
update_activity_comment(activity_id, comments, updateFails) ==
    LET arg == [id |-> activity_id, comments |-> comments]
    IN /\ IF ~comments.given
          THEN resp' = Response("comment", 400, arg, <<>>) /\ UNCHANGED store
          ELSE IF updateFails
          THEN resp' = Response("comment", 500, arg, <<>>) /\ UNCHANGED store
          ELSE /\ store' = SetDescription(store, activity_id, comments.text)
               /\ resp' = IF Matching(store, activity_id) = {}
                          THEN Response("comment", 404, arg, <<>>)
                          ELSE Response("comment", 200, arg, <<>>)
       /\ UNCHANGED <<now, hostTz, nextCtr, readerVars>>

----------------------------------------------------------------------------
(* create_activity *)

MaxDocs == 2

\* lines 476-479: the datetime the date string parses to, as wall-clock fields
\* (strptime for 10 characters, fromisoformat otherwise)
ParseDateIn(date_in) ==
    IF date_in.kind = "ymd" THEN Strptime(date_in) ELSE Days(date_in.day) + date_in.hour

\* line 485 without the reset of the time of day
DateUtcKeepTime(date_in) == ParseDateIn(date_in)

\* dt.replace(hour=0, minute=0, second=0, microsecond=0, tzinfo=timezone.utc), line 485
DateUtc(date_in) == Midnight(ParseDateIn(date_in))

\* doc, lines 487-495, with the _id insert_one gives it
NewDoc(body) ==
    Doc(ObjectId(IdStr(TRUE, now, nextCtr)), NoIdStr, body.username, body.exerciseType,
        body.description,
        IF body.duration.kind = "none" THEN 0 ELSE IntOf(body.duration.tenths),
        DateUtc(body.date), now)

\* what the handler does to the store and answers; a date that is not a string
\* (line 483), a duration int() rejects (line 491) and a failing insert_one
\* (line 497) raise outside any try: the answer is 500 and nothing is stored
create_activity(body, insertFails) ==
    /\ IF body.username = "" \/ body.exerciseType = "" \/ body.date.kind = "none"
       THEN resp' = Response("create", 400, body, <<>>) /\ UNCHANGED <<store, nextCtr>>
       ELSE IF body.date.kind = "bad"
       THEN resp' = Response("create", 400, body, <<>>) /\ UNCHANGED <<store, nextCtr>>
       ELSE IF body.date.kind = "num" \/ body.duration.kind = "text" \/ insertFails
       THEN resp' = Response("create", 500, body, <<>>) /\ UNCHANGED <<store, nextCtr>>
       ELSE /\ Len(store) < MaxDocs
            /\ store' = Append(store, NewDoc(body))
            /\ nextCtr' = nextCtr + 1
            /\ resp' = Response("create", 200, body, <<>>)
    /\ UNCHANGED <<now, hostTz, readerVars>>

----------------------------------------------------------------------------
(* Range requests that are not running *)

IdleReaders ==
    /\ pc = [p \in Readers |-> "idle"]
    /\ req = [p \in Readers |-> NoReq]
    /\ activities_list = [p \in Readers |-> <<>>]
    /\ idx = [p \in Readers |-> 1]
    /\ out = [p \in Readers |-> <<>>]
    /\ rangeResp = [p \in Readers |-> NoResp]

\* the documents of a collection other writers filled: document i of the
\* sequence gets the ObjectId with counter i, made at instant 0
Collection(fields) ==
    [i \in DOMAIN fields |->
        Doc(ObjectId(IdStr(TRUE, 0, i)), NoIdStr, fields[i].username,
            fields[i].exerciseType, "", fields[i].duration, fields[i].date,
            fields[i].created_at)]

SeqsUpTo(S, n) == UNION {[1..k -> S] : k \in 0..n}

----------------------------------------------------------------------------
(* SpecTrend: daily_trend_stats over every small collection, clock and host zone *)

MaxTrendDocs == 2

HostOffsets == {0 - 5, 0, 9}

TrendNows == {Days(8) + 12, Days(9)}
TrendDates == {Days(1) + 23, Days(2), Days(8), Days(8) + 13, Days(9)}
TrendFields ==
    [username : Users, exerciseType : {"Running"}, duration : {2, 5},
     date : TrendDates, created_at : {Missing}]

TrendInit ==
    /\ store \in {Collection(f) : f \in SeqsUpTo(TrendFields, MaxTrendDocs)}
    /\ now \in TrendNows
    /\ hostTz \in HostOffsets
    /\ nextCtr = MaxTrendDocs + 1
    /\ IdleReaders
    /\ resp = NoResp

TrendNext == \E username \in Users, fails \in BOOLEAN : daily_trend_stats(username, fails)

SpecTrend == TrendInit /\ [][TrendNext]_vars

----------------------------------------------------------------------------
(* Claims about daily_trend_stats *)

TrendAnswered == resp.op = "daily_trend" /\ resp.status = 200

\* C1: a successful daily_trend_stats returns exactly 7 entries, entry i being
\* day i of the 7 consecutive calendar days that end at the reference day (the
\* host clock's day), so the dates ascend strictly and none repeats or is missing.
C1_SevenDays ==
    TrendAnswered =>
        /\ Len(resp.body) = 7
        /\ \A i \in 1..Len(resp.body) : resp.body[i].date = DayOf(LocalNow) - 7 + i

\* C1 witness: a trend answered over a collection holding two documents of the
\* user in the window, at an instant that is exactly midnight.
C1_Witness ==
    /\ TrendAnswered
    /\ Len(TrendMatch(store, resp.arg, TrendStart, TrendEnd)) = 2
    /\ HourOf(LocalNow) = 0

\* the user's documents of calendar day d inside the window [TrendStart, TrendEnd]
DocsOfDay(username, d) ==
    LET Hit(r) == /\ r.username = username
                  /\ r.date # Missing
                  /\ DayOf(r.date) = d
                  /\ TrendStart <= r.date
                  /\ r.date <= TrendEnd
    IN SelectSeq(store, Hit)

\* C2: every entry's Duration is the sum of duration over the user's documents
\* dated on the entry's day inside the window, hence 0 for a day without one
\* (and 0 seven times when nothing matches).
C2_DayTotals ==
    TrendAnswered =>
        \A i \in 1..Len(resp.body) :
            resp.body[i].Duration = SumDuration(DocsOfDay(resp.arg, resp.body[i].date))

\* C2 witness: an answered trend with a day whose total is a document of the user
\* while the other user has a document on that same day, and a zero-filled day.
C2_Witness ==
    /\ TrendAnswered
    /\ \E i, j \in 1..Len(resp.body) :
          /\ resp.body[i].Duration > 0
          /\ \E u \in Users \ {resp.arg} : DocsOfDay(u, resp.body[i].date) # <<>>
          /\ resp.body[j].Duration = 0

----------------------------------------------------------------------------
(* SpecWeek: daily_trend_stats over collections dated on every weekday *)

MaxWeekDocs == 2

\* one document date in the late morning of each day the windows can cover
WeekDates == {Days(d) + 10 : d \in 2..9}
WeekFields ==
    [username : {"ann"}, exerciseType : {"Running"}, duration : {2},
     date : WeekDates, created_at : {Missing}]

WeekInit ==
    /\ store \in {Collection(f) : f \in SeqsUpTo(WeekFields, MaxWeekDocs)}
    /\ now \in TrendNows
    /\ hostTz \in HostOffsets
    /\ nextCtr = MaxWeekDocs + 1
    /\ IdleReaders
    /\ resp = NoResp

WeekNext == \E username \in Users, fails \in BOOLEAN : daily_trend_stats(username, fails)

SpecWeek == WeekInit /\ [][WeekNext]_vars

\* the weekday of calendar day d, counted from day 0, 1970-01-01, a Thursday
WeekdayName(d) == <<"Thu", "Fri", "Sat", "Sun", "Mon", "Tue", "Wed">>[(d % 7) + 1]

\* C13: in a successful daily_trend_stats every entry is named by the weekday
\* of its own date, whether the store aggregated it or the handler filled it
\* in; the store's table and the handler's naming agree on that date, and no
\* entry is named "Unknown".
C13_WeekdayNames ==
    TrendAnswered =>
        \A i \in DOMAIN resp.body :
            LET e == resp.body[i]
            IN /\ e.name = WeekdayName(e.date)
               /\ e.name # "Unknown"
               /\ SwitchName(MongoDayOfWeek(Days(e.date))) = StrftimeA(Days(e.date))

\* C13 witness: an answer holds an aggregated Sunday, the store's index 1, and
\* a filled-in day next to it.
C13_Witness ==
    /\ TrendAnswered
    /\ \E i, j \in DOMAIN resp.body :
          /\ resp.body[i].Duration > 0
          /\ resp.body[i].name = "Sun"
          /\ resp.body[j].Duration = 0
          /\ resp.body[j].name = "Mon"

----------------------------------------------------------------------------
(* SpecStats: stats and user_stats over every small collection *)

MaxStatsDocs == 3

StatsFields ==
    [username : Users, exerciseType : ExerciseTypes, duration : {0, 3, 4},
     date : {Days(2)}, created_at : {Missing}]

StatsInit ==
    /\ store \in {Collection(f) : f \in SeqsUpTo(StatsFields, MaxStatsDocs)}
    /\ now = Days(8)
    /\ hostTz = 0
    /\ nextCtr = MaxStatsDocs + 1
    /\ IdleReaders
    /\ resp = NoResp

StatsNext ==
    \/ \E fails \in BOOLEAN : stats(fails)
    \/ \E username \in Users, fails \in BOOLEAN : user_stats(username, fails)

SpecStats == StatsInit /\ [][StatsNext]_vars

----------------------------------------------------------------------------
(* Claims about stats and user_stats *)

RECURSIVE SumTotals(_)
SumTotals(exercises) ==
    IF exercises = <<>> THEN 0
    ELSE Head(exercises).totalDuration + SumTotals(Tail(exercises))

StatsAnswered == resp.op \in {"stats", "user_stats"} /\ resp.status = 200

\* the users the request is about: all of them, or the one of user_stats
StatsUsers == IF resp.op = "stats" THEN Users ELSE {resp.arg}

DocsOfUser(u) == LET Hit(r) == r.username = u IN SelectSeq(store, Hit)

\* C8: in the result of stats() and user_stats(username), a user with documents
\* has exactly one row, nobody else has a row, the row's exercises list each of the
\* user's exercise types exactly once, and their totalDuration add up to the sum
\* of duration over all documents of the user.
C8_GrandTotal ==
    StatsAnswered =>
        /\ \A i \in 1..Len(resp.body) :
              /\ resp.body[i].username \in StatsUsers
              /\ DocsOfUser(resp.body[i].username) # <<>>
        /\ \A u \in StatsUsers :
              DocsOfUser(u) # <<>> =>
                 /\ Cardinality({i \in 1..Len(resp.body) : resp.body[i].username = u}) = 1
                 /\ \A i \in 1..Len(resp.body) :
                       resp.body[i].username = u =>
                          LET ex == resp.body[i].exercises
                              types == {DocsOfUser(u)[k].exerciseType :
                                           k \in DOMAIN DocsOfUser(u)}
                          IN /\ SumTotals(ex) = SumDuration(DocsOfUser(u))
                             /\ {ex[k].exerciseType : k \in DOMAIN ex} = types
                             /\ Len(ex) = Cardinality(types)

\* C8 witness: stats answered over a collection where one user has two documents
\* of one type and the other user a document of the same type.
C8_Witness ==
    /\ resp.op = "stats" /\ resp.status = 200
    /\ Len(resp.body) = 2
    /\ \E u \in Users, t \in ExerciseTypes :
          LET Hit(r) == r.username = u /\ r.exerciseType = t /\ r.duration > 0
          IN Len(SelectSeq(store, Hit)) = 2

----------------------------------------------------------------------------
(* SpecSeq: one client, one request at a time: it inserts, lists a range and *)
(* asks for the weekly journal, over every small legacy collection and host  *)
(* zone                                                                      *)

MaxSeqLegacy == 1

SeqReader == "r1"
Quiet == \A p \in Readers : pc[p] = "idle"

SeqFields ==
    [username : Users, exerciseType : {"Running"}, duration : {3},
     date : {Days(1) + 23, Days(2) + 23, Days(3)}, created_at : {Missing, Days(1)}]

\* (start, end) of the range requests
SeqRanges == {<<Ymd(2), Ymd(2)>>, <<Ymd(2), Ymd(3)>>, <<Ymd(3), Ymd(3)>>, <<BadDate, Ymd(2)>>}

SeqBodies ==
    [username : Users, exerciseType : {"Yoga"}, description : {""},
     duration : {DurationIn("num", 25)},
     date : {Ymd(2), Ymd(3), Iso(2, 23, 0 - 5), BadDate}]

SeqInit ==
    /\ store \in {Collection(f) : f \in SeqsUpTo(SeqFields, MaxSeqLegacy)}
    /\ now = Days(5) + 9
    /\ hostTz \in HostOffsets
    /\ nextCtr = MaxSeqLegacy + 1
    /\ IdleReaders
    /\ resp = NoResp

SeqNext ==
    \/ \E body \in SeqBodies :
          Quiet /\ create_activity(body, FALSE)
    \/ \E username \in Users, r \in SeqRanges, fails \in BOOLEAN :
          Quiet /\ weekly_journal_stats(username, r[1], r[2], fails)
    \/ \E username \in Users, r \in SeqRanges, fails \in BOOLEAN :
          Quiet /\ RangeStart(SeqReader, username, r[1], r[2], fails)
    \/ \E fails \in BOOLEAN : RangeStep(SeqReader, fails)
    \/ RangeReturn(SeqReader)
    \/ RangeClose(SeqReader)

SpecSeq == SeqInit /\ [][SeqNext]_vars

----------------------------------------------------------------------------
(* Claims about the explicit range *)

\* the documents the claim says a range request (user, start, end) matches:
\* those of the user dated d with start <= d < end + 1 day
InRange(r, arg) ==
    /\ r.username = arg.user
    /\ r.date # Missing
    /\ Days(arg.start.day) <= r.date
    /\ r.date < Days(arg.end.day + 1)

DocsInRange(arg) == LET Hit(r) == InRange(r, arg) IN SelectSeq(store, Hit)

RangeAnswered(p) == pc[p] = "done" /\ rangeResp[p].status = 200
WeeklyAnswered == resp.op = "weekly" /\ resp.status = 200

\* C3: with parseable start and end, get_activities_by_range returns a row for
\* exactly the user's documents dated d with start <= d < end + 1 day, and
\* weekly_journal_stats totals exactly those documents by exercise type.
C3_EndInclusive ==
    /\ \A p \in Readers :
          RangeAnswered(p) =>
             LET want == DocsInRange(rangeResp[p].arg)
                 got == rangeResp[p].body
             IN /\ Len(got) = Len(want)
                /\ {got[i].id : i \in DOMAIN got} = {want[k]._id.val : k \in DOMAIN want}
    /\ WeeklyAnswered =>
          LET want == DocsInRange(resp.arg)
              OfType(t) == LET In(r) == r.exerciseType = t IN SelectSeq(want, In)
              got == resp.body
          IN /\ {got[i].exerciseType : i \in DOMAIN got}
                   = {want[k].exerciseType : k \in DOMAIN want}
             /\ \A i \in DOMAIN got :
                   got[i].totalDuration = SumDuration(OfType(got[i].exerciseType))
             /\ Len(got) = Cardinality({want[k].exerciseType : k \in DOMAIN want})

\* C3 witness: a range request with start = end answered with a document dated
\* on the end date, late in the day, while the user also has a document dated
\* the day after, and a weekly journal that counts a document of its end date.
C3_Witness ==
    /\ \E p \in Readers :
          /\ RangeAnswered(p)
          /\ rangeResp[p].arg.start = rangeResp[p].arg.end
          /\ Len(rangeResp[p].body) = 1
          /\ \E k \in DOMAIN store :
                /\ InRange(store[k], rangeResp[p].arg)
                /\ HourOf(store[k].date) = 23
          /\ \E k \in DOMAIN store :
                /\ store[k].username = rangeResp[p].arg.user
                /\ store[k].date = Days(rangeResp[p].arg.end.day + 1)
    /\ WeeklyAnswered
    /\ \E k \in DOMAIN store :
          InRange(store[k], resp.arg) /\ DayOf(store[k].date) = resp.arg.end.day

----------------------------------------------------------------------------
(* Claims about the round trip *)

\* the last single-step request stored a document for (user, day) from a
\* YYYY-MM-DD string, it is the user's only document of that day, and request p,
\* made after it, listed the range (user, day, day) and was answered
RoundTrip(p) ==
    /\ RangeAnswered(p)
    /\ resp.op = "create" /\ resp.status = 200
    /\ resp.arg.date.kind = "ymd"
    /\ rangeResp[p].arg =
          [user |-> resp.arg.username, start |-> resp.arg.date, end |-> resp.arg.date]
    /\ Cardinality({k \in DOMAIN store :
                       /\ store[k].username = resp.arg.username
                       /\ store[k].date # Missing
                       /\ DayOf(store[k].date) = resp.arg.date.day}) = 1

\* C4: create_activity with the date string D, in a store without a document of
\* the user on day D, followed by get_activities_by_range(user, D, D), returns
\* exactly one row, and the row's date is D.
C4_RoundTrip ==
    \A p \in Readers :
        RoundTrip(p) =>
           /\ Len(rangeResp[p].body) = 1
           /\ rangeResp[p].body[1].date = resp.arg.date.day

----------------------------------------------------------------------------
(* Spec: the service under concurrent requests: two range requests, step by *)
(* step, beside inserts and comment updates.  The collection starts with    *)
(* documents other writers left: without created_at, with a string _id and  *)
(* an id field, with a date that carries a time of day.  The read's round   *)
(* trips may fail here; failing inserts and comment updates are in          *)
(* SpecWrites.                                                              *)

FirstNewCtr == 10

OldId == IdStr(TRUE, Days(1) + 7, 1)
OldDoc == Doc(ObjectId(OldId), NoIdStr, "ann", "Running", "", 3, Days(2), Missing)

TextId == IdStr(FALSE, 0, 2)
FieldId == IdStr(FALSE, 0, 3)
TextDoc == Doc(StrId(TextId), FieldId, "ann", "Running", "", 4, Days(2) + 23, Days(1) + 8)

LegacyStores == {<<>>, <<OldDoc>>, <<TextDoc>>, <<OldDoc, TextDoc>>}

\* the ids a PATCH may name: those of the documents there are, and two of none
UnknownIds == {IdStr(TRUE, 0, 90), IdStr(FALSE, 0, 91)}
KnownIds ==
    {store[k]._id.val : k \in DOMAIN store} \cup ({store[k].id : k \in DOMAIN store} \ {NoIdStr})

Body(username, duration, date) ==
    [username |-> username, exerciseType |-> "Yoga", description |-> "",
     duration |-> duration, date |-> date]

MainBodies == {Body("ann", DurationIn("num", 25), Ymd(2))}
MainComments == {CommentsIn(TRUE, "sore")}
\* the ids the concurrent PATCH requests name: the old document's, that of the
\* first document create_activity stores, and one of no document
MainIds == {OldId, IdStr(TRUE, now, FirstNewCtr), IdStr(TRUE, 0, 90)}

Init ==
    /\ store \in LegacyStores
    /\ now = Days(5) + 9
    /\ hostTz = 0
    /\ nextCtr = FirstNewCtr
    /\ IdleReaders
    /\ resp = NoResp

Next ==
    \/ \E body \in MainBodies : create_activity(body, FALSE)
    \/ \E id \in MainIds, comments \in MainComments :
          update_activity_comment(id, comments, FALSE)
    \/ \E p \in Readers, fails \in BOOLEAN : RangeStart(p, "ann", Ymd(2), Ymd(2), fails)
    \/ \E p \in Readers, fails \in BOOLEAN : RangeStep(p, fails)
    \/ \E p \in Readers : RangeReturn(p)
    \/ \E p \in Readers : RangeClose(p)

Spec == Init /\ [][Next]_vars

----------------------------------------------------------------------------
(* Claims about created_at *)

\* C5: under any interleaving of range, insert and comment requests, a step
\* changes a document's stored created_at only from absent to the instant of
\* the document's identifier; so it changes at most once, a created_at that
\* create_activity set is never rewritten, and a second or concurrent
\* back-fill leaves the value the first one stored.
C5_CreatedAtOnce ==
    [][\A k \in DOMAIN store :
          /\ k \in DOMAIN store'
          /\ store'[k]._id = store[k]._id
          /\ store'[k].created_at # store[k].created_at =>
                /\ store[k].created_at = Missing
                /\ store'[k].created_at = generation_time(store[k]._id)]_vars

\* C5 witness: both range requests found the same document without created_at
\* and both have back-filled it, the store holds the identifier's instant, and a
\* document made by create_activity has been listed as well.
C5_Witness ==
    /\ \E k \in DOMAIN store :
          /\ store[k].created_at = generation_time(store[k]._id)
          /\ \A p \in Readers :
                \E i \in DOMAIN activities_list[p] :
                   /\ i < idx[p]
                   /\ activities_list[p][i]._id = store[k]._id
                   /\ activities_list[p][i].created_at = Missing
    /\ \E p \in Readers :
          \E i \in DOMAIN activities_list[p] :
             i < idx[p] /\ activities_list[p][i]._id.val.ctr >= FirstNewCtr

\* request p is about to handle a document that lacks created_at and whose
\* identifier yields an instant
Backfilling(p) ==
    /\ pc[p] = "loop"
    /\ idx[p] <= Len(activities_list[p])
    /\ activities_list[p][idx[p]].created_at = Missing
    /\ activities_list[p][idx[p]].date # Missing
    /\ activities_list[p][idx[p]]._id.kind = "oid"

\* C6: when the read handles a document without created_at, a failure to store
\* the derived value does not end the request with an error response.
C6_BackfillFailureNonFatal ==
    [][\A p \in Readers :
          Backfilling(p) => ~(pc'[p] = "done" /\ rangeResp'[p].status = 500)]_vars

\* C11: every row of a successful get_activities_by_range response has a
\* createdAt, and it is the created_at the store now holds for the row's
\* document: the value that was stored already or, for a document the read
\* found without one, the instant of its identifier, written back by that read.
C11_CreatedAtPresent ==
    \A p \in Readers :
        RangeAnswered(p) =>
           /\ Len(rangeResp[p].body) = Len(activities_list[p])
           /\ \A i \in DOMAIN rangeResp[p].body :
                 LET row == rangeResp[p].body[i]
                     a == activities_list[p][i]
                 IN /\ row.createdAt # Missing
                    /\ row.id = a._id.val
                    /\ a.created_at # Missing => row.createdAt = a.created_at
                    /\ a.created_at = Missing => row.createdAt = generation_time(a._id)
                    /\ \E k \in DOMAIN store :
                          store[k]._id = a._id /\ store[k].created_at = row.createdAt

\* C11 witness: an answered range request lists a document it found without
\* created_at and a document that had one.
C11_Witness ==
    \E p \in Readers :
        /\ RangeAnswered(p)
        /\ \E i, j \in DOMAIN activities_list[p] :
              /\ activities_list[p][i].created_at = Missing
              /\ activities_list[p][j].created_at # Missing

----------------------------------------------------------------------------
(* SpecWrites: every kind of insert and comment request, beside range       *)
(* requests that list (and back-fill) the documents of day 2                 *)

WritesBodies ==
    {Body("ann", DurationIn("num", 25), Ymd(3)),
     Body("ann", DurationIn("num", 0 - 50), Ymd(3)),
     Body("ann", DurationIn("none", 0), Iso(3, 23, 0 - 5)),
     Body("ann", DurationIn("text", 0), Ymd(3)),
     Body("ann", DurationIn("none", 0), NumDate),
     Body("ann", DurationIn("none", 0), BadDate),
     Body("", DurationIn("none", 0), Ymd(3))}

WritesComments == {CommentsIn(FALSE, ""), CommentsIn(TRUE, "sore")}
WritesIds == KnownIds \cup UnknownIds

WritesInit ==
    /\ store \in LegacyStores
    /\ now = Days(5) + 9
    /\ hostTz \in {0, 9}
    /\ nextCtr = FirstNewCtr
    /\ IdleReaders
    /\ resp = NoResp

WritesNext ==
    \/ \E body \in WritesBodies, fails \in BOOLEAN : create_activity(body, fails)
    \/ \E id \in WritesIds, comments \in WritesComments, fails \in BOOLEAN :
          update_activity_comment(id, comments, fails)
    \/ \E fails \in BOOLEAN : RangeStart(SeqReader, "ann", Ymd(2), Ymd(2), fails)
    \/ \E fails \in BOOLEAN : RangeStep(SeqReader, fails)
    \/ RangeReturn(SeqReader)
    \/ RangeClose(SeqReader)

SpecWrites == WritesInit /\ [][WritesNext]_vars

----------------------------------------------------------------------------
(* Claims about the writes *)

\* no document is named by the identifier: not as the text of its ObjectId, not
\* as its string _id, not as its id field
NoSuchDoc(activity_id) ==
    \A k \in DOMAIN store : store[k]._id.val # activity_id /\ store[k].id # activity_id

CommentOk ==
    /\ resp'.op = "comment"
    /\ resp'.status = 200
    /\ UNCHANGED <<readerVars, nextCtr>>

\* C12: a successful update_activity_comment(id, text) leaves the number of
\* documents alone and changes one document that id names, in its description
\* only: _id, username, exerciseType, date, duration and created_at of that
\* document stay, and every other document stays as it was.
C12_CommentFrame ==
    [][CommentOk =>
          /\ Len(store') = Len(store)
          /\ \E k \in DOMAIN store :
                /\ store[k]._id.val = resp'.arg.id \/ store[k].id = resp'.arg.id
                /\ store'[k].description = resp'.arg.comments.text
                /\ store'[k]._id = store[k]._id
                /\ store'[k].username = store[k].username
                /\ store'[k].exerciseType = store[k].exerciseType
                /\ store'[k].date = store[k].date
                /\ store'[k].duration = store[k].duration
                /\ store'[k].created_at = store[k].created_at
                /\ store'[k] = [store[k] EXCEPT !.description = resp'.arg.comments.text]
                /\ \A j \in DOMAIN store \ {k} : store'[j] = store[j]]_vars

\* C12 witness: a comment was answered 200 with two documents stored, and
\* the text is on the named document and not on the other.
C12_Witness ==
    /\ resp.op = "comment"
    /\ resp.status = 200
    /\ Len(store) = 2
    /\ \E k, j \in DOMAIN store :
          /\ k # j
          /\ store[k]._id.val = resp.arg.id \/ store[k].id = resp.arg.id
          /\ store[k].description = resp.arg.comments.text
          /\ store[k].username # ""
          /\ store[j].description # resp.arg.comments.text

\* C9: every stored document has duration >= 0.
C9_NonNegativeDuration == \A k \in DOMAIN store : store[k].duration >= 0

\* a document create_activity stored
Created(r) == r._id.kind = "oid" /\ r._id.val.ctr >= FirstNewCtr

\* C10: after every step, each document create_activity stored has a date at
\* midnight UTC, whether it came from a YYYY-MM-DD string or an ISO timestamp,
\* and the step has left the date of every such document as it was.
C10_MidnightDate ==
    [][\A k \in DOMAIN store' :
          Created(store'[k]) =>
             /\ HourOf(store'[k].date) = 0
             /\ k \in DOMAIN store => store'[k].date = store[k].date]_vars

\* C10 witness: create_activity has just stored a document from an ISO
\* timestamp with a time of day, dated at the midnight of the timestamp's day.
C10_Witness ==
    /\ resp.op = "create" /\ resp.status = 200
    /\ resp.arg.date.kind = "iso" /\ resp.arg.date.hour # 0
    /\ Len(store) = 2
    /\ Created(store[Len(store)])
    /\ store[Len(store)].date = Days(resp.arg.date.day)

====
